---- MODULE Spec2Model ----
(***************************************************************************)
(* Real-time fan-out subsystem of the CampusPandit backend:                *)
(*   app/websockets/connection_manager.py  ConnectionManager      ws_...   *)
(*   app/sse/sse_manager.py                SSEConnectionManager   sse_...  *)
(*   app/realtime/pg_listener.py           PostgreSQLListener     pg       *)
(*   app/api/v1/endpoints/websocket.py, sse.py   the transport endpoints   *)
(*   main.py lifespan                      wiring of listener and manager  *)
(*                                                                         *)
(* One backend process is modelled in full.  Writes committed by other     *)
(* backend processes appear as RemoteWrite: they reach this process only   *)
(* through the store's NOTIFY, exactly as in the code, where the managers  *)
(* are process-local singletons.                                           *)
(*                                                                         *)
(* asyncio is cooperative: a handler runs without interleaving until it    *)
(* really suspends.  `async with lock` on a free lock and `queue.put` on   *)
(* a queue with room do not suspend, so a handler is one action up to the  *)
(* point where it blocks: a put on a full queue (SSE), or an acquire of a  *)
(* lock that is held (WebSocket manager).                                  *)
(* websocket.send_text is taken to return or raise without yielding to     *)
(* another task (the server's send suspends only under flow control).      *)
(***************************************************************************)
EXTENDS Integers, Sequences, FiniteSets, TLC

\* ---------------------------------------------------------------- bounds
\* connection handles (WebSocket objects / asyncio.Queue objects) ever created
MaxConn == 2
\* capacity of an SSE queue; the code uses asyncio.Queue(maxsize=100)
QueueMax == 1
\* number of broadcast events (messages, typing, receipts) ever issued
MaxEvents == 3
\* a WebSocket client issues a broadcasting command only while fewer than
\* MaxCommands events have been issued
MaxCommands == 1
\* number of times the store connection of the listener is dropped
MaxDrops == 2
MaxCallbacks == 2
PingInterval == 2
EachEvents == 2

Conns == 1..MaxConn
Users == {"u1", "u2"}
Channels == {"c1", "c2"}

\* rows of the channel_members table of the store (the collaborator's data):
\* u1 is a member of c1 only, u2 of both channels
PersistentMembers == [c \in Channels |-> IF c = "c1" THEN {"u1", "u2"} ELSE {"u2"}]

\* A channel id is a uuid.UUID when read from the store with as_uuid=True and a
\* str when it comes from a JSON frame or from str(...); the two never compare
\* equal as dict keys.
UuidKey(c) == <<"uuid", c>>
StrKey(c) == <<"str", c>>
ChannelKeys == {UuidKey(c) : c \in Channels} \cup {StrKey(c) : c \in Channels}

NoChan == "-"
NoUser == "-"

VARIABLES
    connState,              \* per handle: position of its endpoint task
    connKind,               \* "ws" | "sse" | "none"
    connUser,               \* user id of the URL path
    peerGone,               \* WebSocket whose client side is gone: send_text raises
    outbox,                 \* frames put on the wire for the client, in order (presence apart)
    presenceSeen,           \* the last presence frame sent to the socket, with a parity bit
    ws_active_connections,  \* ConnectionManager.active_connections (ordered dict)
    ws_channel_members,     \* ConnectionManager.channel_members
    ws_user_presence,       \* keys of ConnectionManager.user_presence
    ws_lock,                \* ConnectionManager.lock: {} when free, {k} when held by the task of k
    sse_user_connections,   \* SSEConnectionManager.user_connections
    sse_channel_members,    \* SSEConnectionManager.channel_members
    sse_user_presence,      \* keys of SSEConnectionManager.user_presence
    queue,                  \* contents of each SSE asyncio.Queue
    tasks,                  \* SSE broadcasts in progress (suspended on a full queue)
    nextEvent,              \* events issued so far
    db_messages,            \* ids of the rows committed to channel_messages
    pg,                     \* PostgreSQLListener and the store connection
    sse_stream              \* per SSE stream: time since last_ping and since the last event sent

vars == <<connState, connKind, connUser, peerGone, outbox, presenceSeen,
          ws_active_connections, ws_channel_members, ws_user_presence, ws_lock,
          sse_user_connections, sse_channel_members, sse_user_presence,
          queue, tasks, nextEvent, db_messages, pg, sse_stream>>

\* ------------------------------------------------------------ dict helpers
\* A Python dict whose key order is never read is a function on its keys.
HasKey(d, key) == key \in DOMAIN d
DictPut(d, key, val) == [x \in (DOMAIN d) \cup {key} |-> IF x = key THEN val ELSE d[x]]
DictDel(d, key) == [x \in (DOMAIN d) \ {key} |-> d[x]]
EmptyDict == [x \in {} |-> {}]

\* active_connections is iterated by key (list(keys())), and a dict keeps
\* insertion order: it is a sequence of [user, socks] entries.
OKeys(od) == [i \in 1..Len(od) |-> od[i].user]
OHas(od, u) == \E i \in 1..Len(od) : od[i].user = u
OGet(od, u) == (CHOOSE e \in {od[i] : i \in 1..Len(od)} : e.user = u).socks
OPut(od, u, s) ==
    IF OHas(od, u)
    THEN [i \in 1..Len(od) |-> IF od[i].user = u THEN [user |-> u, socks |-> s] ELSE od[i]]
    ELSE Append(od, [user |-> u, socks |-> s])
ODel(od, u) == SelectSeq(od, LAMBDA e : e.user # u)

\* frames
Frame(t, c, u, i) == [type |-> t, chan |-> c, user |-> u, id |-> i]
PresenceFrame(u, online) == Frame("presence", NoChan, u, IF online THEN 1 ELSE 0)
ConnectionFrame(u) == Frame("connection", NoChan, u, 0)
ErrorFrame(u, e) == Frame("error", NoChan, u, e)

\* ------------------------------------------------- WebSocket ConnectionManager
\* The manager calls below thread a record w through the nested calls:
\*   ac, cm, pres: the three dicts; out, seen: what the sockets were sent;
\*   lock: {} when free, or {k} for the task of k holding ConnectionManager.lock;
\*   blocked: the calling task waits for the lock and never gets it;
\*   lockedSend: a send_text was awaited while the lock was held.
WsWorld ==
    [ac |-> ws_active_connections, cm |-> ws_channel_members, pres |-> ws_user_presence,
     out |-> outbox, seen |-> presenceSeen, lock |-> ws_lock, blocked |-> FALSE,
     lockedSend |-> FALSE]

\* websocket.send_text(frame) to each socket of socks; it raises on a socket
\* whose peer is gone
SendAll(out, socks, frame) ==
    [k \in Conns |-> IF k \in socks /\ ~peerGone[k] THEN Append(out[k], frame) ELSE out[k]]

\* the same for a presence frame: the socket's record keeps the frame and
\* flips its bit, so that every send changes it
NoPresence == [frame |-> PresenceFrame(NoUser, FALSE), bit |-> FALSE]

SeeAll(seen, socks, frame) ==
    [k \in Conns |-> IF k \in socks /\ ~peerGone[k]
                     THEN [frame |-> frame, bit |-> ~seen[k].bit] ELSE seen[k]]

\* event_stream's clock, in units of which ping_interval is PingInterval:
\* since_ping is current_time - last_ping, since_event the time since the
\* stream last sent an event; both stop counting at PingInterval.  NoStream:
\* last_ping has just been set and no event was sent within the interval.
NoStream == [since_ping |-> 0, since_event |-> PingInterval]

\* send_personal_message: every socket of the user is tried; the failing ones
\* are removed under the lock.  asyncio.Lock is not reentrant: when the lock
\* is held (also by the caller itself) the acquire never returns.
ws_send_personal_message(w, user_id, frame) ==
    IF ~OHas(w.ac, user_id) THEN w
    ELSE LET socks == OGet(w.ac, user_id)
             disconnected == {k \in socks : peerGone[k]}
             under == w.lockedSend \/ (w.lock # {} /\ socks # {})
             sent == IF frame.type = "presence"
                     THEN [w EXCEPT !.seen = SeeAll(w.seen, socks, frame), !.lockedSend = under]
                     ELSE [w EXCEPT !.out = SendAll(w.out, socks, frame), !.lockedSend = under]
         IN  IF disconnected = {} THEN sent
             ELSE IF w.lock # {} THEN [sent EXCEPT !.blocked = TRUE]
             ELSE [sent EXCEPT !.ac = OPut(w.ac, user_id, socks \ disconnected)]

\* broadcast_presence_update: send_personal_message to list(keys()), in dict order
RECURSIVE PresenceLoop(_, _, _, _)
PresenceLoop(w, keys, i, frame) ==
    IF i > Len(keys) \/ w.blocked THEN w
    ELSE PresenceLoop(ws_send_personal_message(w, keys[i], frame), keys, i + 1, frame)

ws_broadcast_presence_update(w, user_id, is_online) ==
    PresenceLoop(w, OKeys(w.ac), 1, PresenceFrame(user_id, is_online))

\* connect: register under the lock, then broadcast the online status
ws_connect(w, k, user_id) ==
    IF w.lock # {} THEN [w EXCEPT !.blocked = TRUE]
    ELSE LET socks == IF OHas(w.ac, user_id) THEN OGet(w.ac, user_id) ELSE {}
             reg == [w EXCEPT !.ac = OPut(w.ac, user_id, socks \cup {k}),
                              !.pres = w.pres \cup {user_id}]
         IN  ws_broadcast_presence_update(reg, user_id, TRUE)

\* disconnect: the offline status is broadcast while the lock is still held
ws_disconnect(w, k, user_id) ==
    IF w.lock # {} THEN [w EXCEPT !.blocked = TRUE]
    ELSE IF ~OHas(w.ac, user_id) THEN w
    ELSE LET rest == OGet(w.ac, user_id) \ {k}
         IN  IF rest # {} THEN [w EXCEPT !.ac = OPut(w.ac, user_id, rest)]
             ELSE LET held == [w EXCEPT !.ac = ODel(w.ac, user_id),
                                        !.pres = w.pres \ {user_id},
                                        !.lock = {k}]
                      after == ws_broadcast_presence_update(held, user_id, FALSE)
                  IN  IF after.blocked THEN after ELSE [after EXCEPT !.lock = {}]

ws_join_channel(w, key, user_id) ==
    IF w.lock # {} THEN [w EXCEPT !.blocked = TRUE]
    ELSE LET old == IF HasKey(w.cm, key) THEN w.cm[key] ELSE {}
         IN  [w EXCEPT !.cm = DictPut(w.cm, key, old \cup {user_id})]

\* leave_channel that cleans up the channel's entry without testing that
\* the set is empty
ws_leave_channel_del(w, key, user_id) ==
    IF w.lock # {} THEN [w EXCEPT !.blocked = TRUE]
    ELSE IF ~HasKey(w.cm, key) THEN w
    ELSE [w EXCEPT !.cm = DictDel(w.cm, key)]

ws_leave_channel(w, key, user_id) ==
    IF w.lock # {} THEN [w EXCEPT !.blocked = TRUE]
    ELSE IF ~HasKey(w.cm, key) THEN w
    ELSE LET rest == w.cm[key] \ {user_id}
         IN  [w EXCEPT !.cm = IF rest = {} THEN DictDel(w.cm, key) ELSE DictPut(w.cm, key, rest)]

\* the users a broadcast sends to: the channel's set minus exclude_user
\* (`if exclude_user and user_id == exclude_user`), those with a registry entry
ws_recipients(w, key, exclude_user) ==
    IF ~HasKey(w.cm, key) THEN {}
    ELSE {u \in w.cm[key] : u # exclude_user /\ OHas(w.ac, u)}

\* a broadcast that sends every socket the frame twice
ws_broadcast_to_channel_twice(w, key, frame, exclude_user) ==
    LET socks == UNION {OGet(w.ac, u) : u \in ws_recipients(w, key, exclude_user)}
    IN  [w EXCEPT !.out = SendAll(SendAll(w.out, socks, frame), socks, frame)]
\* broadcast_to_channel: a failing send is logged, nothing is removed
ws_broadcast_to_channel(w, key, frame, exclude_user) ==
    LET socks == UNION {OGet(w.ac, u) : u \in ws_recipients(w, key, exclude_user)}
    IN  [w EXCEPT !.out = SendAll(w.out, socks, frame)]

ws_is_user_online(user_id) == OHas(ws_active_connections, user_id)

\* ------------------------------------------------------ SSEConnectionManager
\* w = [uc, cm, pres]: user_connections, channel_members, keys of user_presence
SseWorld ==
    [uc |-> sse_user_connections, cm |-> sse_channel_members, pres |-> sse_user_presence]

\* a connect that registers the queue and records no presence
sse_connect_unseen(w, k, user_id) ==
    LET old == IF HasKey(w.uc, user_id) THEN w.uc[user_id] ELSE {}
    IN  [w EXCEPT !.uc = DictPut(w.uc, user_id, old \cup {k})]

sse_connect(w, k, user_id) ==
    LET old == IF HasKey(w.uc, user_id) THEN w.uc[user_id] ELSE {}
    IN  [w EXCEPT !.uc = DictPut(w.uc, user_id, old \cup {k}),
                  !.pres = w.pres \cup {user_id}]

\* every channel set loses the user; the emptied ones are deleted
sse_drop_user(cm, user_id) ==
    LET kept == {key \in DOMAIN cm : cm[key] \ {user_id} # {}}
    IN  [key \in kept |-> cm[key] \ {user_id}]

sse_disconnect(w, k, user_id) ==
    IF ~HasKey(w.uc, user_id) THEN w
    ELSE LET rest == w.uc[user_id] \ {k}
         IN  IF rest # {} THEN [w EXCEPT !.uc = DictPut(w.uc, user_id, rest)]
             ELSE [w EXCEPT !.uc = DictDel(w.uc, user_id),
                            !.cm = sse_drop_user(w.cm, user_id),
                            !.pres = w.pres \ {user_id}]

sse_join_channel(w, key, user_id) ==
    LET old == IF HasKey(w.cm, key) THEN w.cm[key] ELSE {}
    IN  [w EXCEPT !.cm = DictPut(w.cm, key, old \cup {user_id})]

\* a leave that keeps the entry of a channel it has emptied
sse_leave_channel_keep(w, key, user_id) ==
    IF ~HasKey(w.cm, key) THEN w
    ELSE [w EXCEPT !.cm = DictPut(w.cm, key, w.cm[key] \ {user_id})]

sse_leave_channel(w, key, user_id) ==
    IF ~HasKey(w.cm, key) THEN w
    ELSE LET rest == w.cm[key] \ {user_id}
         IN  [w EXCEPT !.cm = IF rest = {} THEN DictDel(w.cm, key) ELSE DictPut(w.cm, key, rest)]

sse_is_user_online(user_id) == HasKey(sse_user_connections, user_id)

\* list(a_set) has no defined order: the caller draws a permutation and the
\* set is listed in that order
Perms(S) == {p \in [1..Cardinality(S) -> S] : \A x \in S : \E i \in DOMAIN p : p[i] = x}
ListOf(S, order) == SelectSeq(order, LAMBDA x : x \in S)

\* A send in progress:
\*   frame;  users: the members still to be served (broadcast_to_channel's
\*   list);  cur: the queues of the user being served still to be put to
\*   (send_to_user's list);
\*   ready: the connections that had room when the call was made,
\*   snap: all connections of the addressed users at that moment, and
\*   subs: the channel's subscriber set at that moment (observations);
\*   then: the callbacks _handle_notification awaits after this one returns;
\*   sender: 0 (a WebSocket broadcast in progress names the socket whose
\*   command it serves).
\* put(job, q): queue.put of the head of cur
sse_queue_full(q, k) == Len(q[k]) >= QueueMax

\* send_to_user / broadcast_to_channel run until the put on a full queue,
\* which suspends the task, or until the lists are exhausted; order is the
\* order in which list(user_connections[u]) lists the queues.
\* The result is [job, q, done].
RECURSIVE sse_run(_, _, _, _)
sse_run(job, q, uc, order) ==
    IF job.cur # <<>> THEN
        LET k == Head(job.cur)
        IN  IF sse_queue_full(q, k) THEN [job |-> job, q |-> q, done |-> FALSE]
            ELSE sse_run([job EXCEPT !.cur = Tail(job.cur)],
                         [q EXCEPT ![k] = Append(q[k], job.frame)], uc, order)
    ELSE IF job.users # <<>> THEN
        LET u == Head(job.users)
            conns == IF HasKey(uc, u) THEN ListOf(uc[u], order) ELSE <<>>
        IN  sse_run([job EXCEPT !.users = Tail(job.users), !.cur = conns], q, uc, order)
    ELSE [job |-> job, q |-> q, done |-> TRUE]

\* a broadcast that serves the members of every channel instead of the one
\* it is given
sse_recipients_any(cm, key, exclude_user) ==
    UNION {cm[x] : x \in DOMAIN cm} \ {exclude_user}

\* the members a broadcast serves: list(channel_members[channel_id]) without
\* exclude_user, or nobody when the channel has no entry
sse_recipients(cm, key, exclude_user) ==
    IF ~HasKey(cm, key) THEN {} ELSE cm[key] \ {exclude_user}

\* connections with room among those of the users in us
RoomAmong(q, uc, us) ==
    {k \in UNION {uc[u] : u \in us \cap DOMAIN uc} : ~sse_queue_full(q, k)}

sse_job(frame, userlist, q, uc, subs) ==
    [frame |-> frame, users |-> userlist, cur |-> <<>>, subs |-> subs, then |-> <<>>,
     sender |-> 0,
     ready |-> RoomAmong(q, uc, {userlist[i] : i \in DOMAIN userlist}),
     snap |-> UNION {uc[u] : u \in {userlist[i] : i \in DOMAIN userlist} \cap DOMAIN uc}]

\* --------------------------------------------------------- PostgreSQLListener
\* pg.is_running, pg.callbacks: the fields of the listener;
\* pg.connection: "none" (None), "open", or "closed" (a connection object
\*   whose is_closed() is true);  pg.listeners: the names add_listener was
\*   called with on the current connection;
\* pg.task: _listener_task, "running" | "failed" (ended by an exception) |
\*   "cancelled";  pg.pc: the await start_listening is suspended at:
\*   "connect", "listen1", "listen2" before the loop, then "sleep",
\*   "reconnect", "relisten1", "relisten2" inside it;
\* pg.inbox: the notifications whose callback is scheduled and has not run;
\* pg.storeUp, pg.drops, pg.stopped: the store accepts connections, the
\*   drops so far, stop_listening was called.
\* pg.others: per name, the callbacks register_callback has appended after
\*   handle_pg_notification, each one by what it does when awaited;
\* pg.called: those of them the latest notification's loop has awaited.
\* lifespan has registered handle_pg_notification for both names and has
\* created the task.
Tables == {"channel_messages", "message_reactions"}
OtherCallbacks == {"raises", "returns"}
PgInit ==
    [is_running |-> FALSE, connection |-> "none", listeners |-> {},
     callbacks |-> {"channel_messages", "message_reactions"},
     task |-> "running", pc |-> "start", storeUp |-> TRUE, drops |-> 0,
     stopped |-> FALSE, inbox |-> <<>>,
     others |-> [t \in Tables |-> <<>>], called |-> <<>>]

\* register_callback(channel, callback): appended to callbacks[channel]
pg_register_callback(l, name, h) == [l EXCEPT !.others[name] = Append(@, h)]

\* a loop over the callbacks that an exception of one of them ends (the
\* outer except clause of _handle_notification then logs it)
pg_run_callbacks_until_raise(list) ==
    IF \E i \in DOMAIN list : list[i] = "raises"
    THEN SubSeq(list, 1, CHOOSE i \in DOMAIN list :
                            /\ list[i] = "raises"
                            /\ \A j \in 1..(i - 1) : list[j] # "raises")
    ELSE list
\* the loop of _handle_notification over callbacks[channel]: each callback
\* is awaited inside its own try, `except Exception` logs what it raises and
\* the loop goes on.  The result is the callbacks awaited.
pg_run_callbacks(list) ==
    SelectSeq(list, LAMBDA h : h \in OtherCallbacks)

\* the except and finally clauses of start_listening after a raise
pg_fail(l) ==
    [l EXCEPT !.is_running = FALSE, !.connection = "none", !.listeners = {},
              !.task = "failed", !.pc = "-"]

\* connect(): asyncpg.connect raises while the store is unreachable
pg_connect(l) ==
    IF l.storeUp
    THEN [l EXCEPT !.connection = "open", !.listeners = {},
                   !.pc = IF l.pc = "connect" THEN "listen1" ELSE "relisten1"]
    ELSE pg_fail(l)

\* listen(name): add_listener raises on a closed connection
pg_listen(l, name, next) ==
    IF l.connection = "open"
    THEN [l EXCEPT !.listeners = @ \cup {name}, !.pc = next]
    ELSE pg_fail(l)

\* the loop body after sleep(1): reconnect when is_closed()
pg_poll(l) ==
    IF l.connection = "closed" THEN [l EXCEPT !.pc = "reconnect"] ELSE l

\* stop_listening: the task is cancelled (its finally clause disconnects)
pg_stop(l) ==
    [l EXCEPT !.is_running = FALSE, !.stopped = TRUE, !.connection = "none",
              !.listeners = {}, !.pc = "-",
              !.task = IF l.task = "running" THEN "cancelled" ELSE l.task]

pg_is_listening(l, name) == l.connection = "open" /\ name \in l.listeners

\* pg_notify(name, payload) of the trigger: the store sends the payload on
\* the connections that LISTEN to name; asyncpg schedules the callback
Notification(t, o, c, i, u) ==
    [table |-> t, operation |-> o, channel_id |-> c, id |-> i, user_id |-> u, via |-> 0]
\* via: the connection the callback is handed as its first argument, named
\* by the number of drops before it was opened
pg_notify(l, n) ==
    IF pg_is_listening(l, n.table)
    THEN [l EXCEPT !.inbox = Append(@, [n EXCEPT !.via = l.drops])] ELSE l

\* handle_pg_notification: the event type for (table, operation), "" for none
sse_event_type(table, operation) ==
    IF table = "channel_messages" THEN
        CASE operation = "INSERT" -> "new_message"
          [] operation = "UPDATE" -> "message_updated"
          [] operation = "DELETE" -> "message_deleted"
          [] OTHER -> ""
    ELSE IF table = "message_reactions" THEN
        CASE operation = "INSERT" -> "message_reaction"
          [] operation = "DELETE" -> "reaction_removed"
          [] OTHER -> ""
    ELSE ""

\* ------------------------------------------------------------------- state
Init ==
    /\ connState = [k \in Conns |-> "new"]
    /\ connKind = [k \in Conns |-> "none"]
    /\ connUser = [k \in Conns |-> NoUser]
    /\ sse_stream = [k \in Conns |-> NoStream]
    /\ peerGone = [k \in Conns |-> FALSE]
    /\ outbox = [k \in Conns |-> <<>>]
    /\ presenceSeen = [k \in Conns |-> NoPresence]
    /\ ws_active_connections = <<>>
    /\ ws_channel_members = EmptyDict
    /\ ws_user_presence = {}
    /\ ws_lock = {}
    /\ sse_user_connections = EmptyDict
    /\ sse_channel_members = EmptyDict
    /\ sse_user_presence = {}
    /\ queue = [k \in Conns |-> <<>>]
    /\ tasks = {}
    /\ nextEvent = 0
    /\ db_messages = {}
    /\ pg = PgInit

\* the state of one group of variables after a manager call
SetWs(w) ==
    /\ ws_active_connections' = w.ac
    /\ ws_channel_members' = w.cm
    /\ ws_user_presence' = w.pres
    /\ ws_lock' = w.lock
    /\ outbox' = w.out
    /\ presenceSeen' = w.seen

SetSse(w) ==
    /\ sse_user_connections' = w.uc
    /\ sse_channel_members' = w.cm
    /\ sse_user_presence' = w.pres

WsVars == <<ws_active_connections, ws_channel_members, ws_user_presence, ws_lock, presenceSeen>>
SseVars == <<sse_user_connections, sse_channel_members, sse_user_presence, queue, tasks>>

\* the endpoint task of k after a manager call: it goes on to next, or it
\* waits for the lock for ever
After(w, k, next) == [connState EXCEPT ![k] = IF w.blocked THEN "stuck" ELSE next]

\* handles are object identities: the next connection takes the lowest unused one
Fresh(k) == connState[k] = "new" /\ \A j \in Conns : j < k => connState[j] # "new"

WsLive(k) == connKind[k] = "ws" /\ connState[k] \in {"registered", "open"}
SseLive(k) == connKind[k] = "sse" /\ connState[k] \in {"registered", "open"}

\* ------------------------------------------------- websocket.py: the endpoint
\* websocket_endpoint up to manager.connect
WSConnect(k, u) ==
    /\ Fresh(k)
    /\ LET w == ws_connect(WsWorld, k, u)
       IN  /\ SetWs(w)
           /\ connState' = After(w, k, "registered")
    /\ connKind' = [connKind EXCEPT ![k] = "ws"]
    /\ connUser' = [connUser EXCEPT ![k] = u]
    /\ UNCHANGED <<peerGone, SseVars, nextEvent, db_messages, pg, sse_stream>>

\* the rows of the store for the user, as the query returns them
ChannelsOf(u) == {c \in Channels : u \in PersistentMembers[c]}

RECURSIVE WsJoinAll(_, _, _)
WsJoinAll(w, keys, u) ==
    IF keys = {} \/ w.blocked THEN w
    ELSE LET key == CHOOSE x \in keys : TRUE
         IN  WsJoinAll(ws_join_channel(w, key, u), keys \ {key}, u)

\* the confirmation frame and the auto-join: channel_ids holds row[0], the
\* UUID objects of the store
WSHandshake(k) ==
    /\ WsLive(k) /\ connState[k] = "registered" /\ ~peerGone[k]
    /\ LET u == connUser[k]
           conf == [WsWorld EXCEPT !.out[k] = Append(@, ConnectionFrame(u))]
           w == WsJoinAll(conf, {UuidKey(c) : c \in ChannelsOf(u)}, u)
       IN  /\ SetWs(w)
           /\ connState' = After(w, k, "open")
    /\ UNCHANGED <<connKind, connUser, sse_stream, peerGone, SseVars, nextEvent, db_messages, pg>>

\* the client goes away (close frame or network failure)
PeerClose(k) ==
    /\ WsLive(k) /\ ~peerGone[k]
    /\ peerGone' = [peerGone EXCEPT ![k] = TRUE]
    /\ UNCHANGED <<connState, connKind, connUser, sse_stream, outbox, WsVars, SseVars,
                   nextEvent, db_messages, pg>>

\* what a socket was sent is no longer observed once its endpoint has returned
Forget(w, k) == [w EXCEPT !.out[k] = <<>>, !.seen[k] = NoPresence]

\* receive_text or send_json raises: both except branches call manager.disconnect
WSDisconnect(k) ==
    /\ WsLive(k) /\ peerGone[k]
    /\ \A job \in tasks : job.sender # k
    /\ LET w == ws_disconnect(WsWorld, k, connUser[k])
       IN  /\ SetWs(IF w.blocked THEN w ELSE Forget(w, k))
           /\ connState' = After(w, k, "closed")
    /\ UNCHANGED <<connKind, connUser, sse_stream, peerGone, SseVars, nextEvent, db_messages, pg>>

\* the endpoint task is cancelled at one of its awaits: CancelledError is not
\* an Exception, neither except clause runs and manager.disconnect is not
\* called; the socket is closed under the task, a later send to it raises
WSCancel(k) ==
    /\ WsLive(k)
    /\ \A job \in tasks : job.sender # k
    /\ connState' = [connState EXCEPT ![k] = "cancelled"]
    /\ peerGone' = [peerGone EXCEPT ![k] = TRUE]
    /\ outbox' = [outbox EXCEPT ![k] = <<>>]
    /\ presenceSeen' = [presenceSeen EXCEPT ![k] = NoPresence]
    /\ UNCHANGED <<connKind, connUser, sse_stream, ws_active_connections, ws_channel_members,
                   ws_user_presence, ws_lock, SseVars, nextEvent, db_messages, pg>>

\* a command frame is handled by the task of an open socket
\* (the task of a socket whose broadcast is suspended in a send is inside
\* its handler)
Sending(k) == \E job \in tasks : job.sender = k
WsReady(k) == WsLive(k) /\ connState[k] = "open" /\ ~peerGone[k] /\ ~Sending(k)

\* verify_channel_access: a row of channel_members for (channel, user)
verify_channel_access(u, c) == u \in PersistentMembers[c]

\* handle_join_channel (a denied command only answers with an error)
WSJoin(k, c) ==
    /\ WsReady(k) /\ verify_channel_access(connUser[k], c)
    /\ LET w == ws_join_channel(WsWorld, StrKey(c), connUser[k])
       IN  /\ SetWs(w)
           /\ connState' = After(w, k, "open")
    /\ UNCHANGED <<connKind, connUser, sse_stream, peerGone, SseVars, nextEvent, db_messages, pg>>

\* handle_leave_channel: no access check
WSLeave(k, c) ==
    /\ WsReady(k)
    /\ LET w == ws_leave_channel(WsWorld, StrKey(c), connUser[k])
       IN  /\ SetWs(w)
           /\ connState' = After(w, k, "open")
    /\ UNCHANGED <<connKind, connUser, sse_stream, peerGone, SseVars, nextEvent, db_messages, pg>>


\* a handler that goes on to the broadcast with nothing committed
CommitMessage_skipped(c, u, e) ==
    /\ db_messages' = db_messages
    /\ pg' = pg
\* create_message_in_db: the row is committed and the trigger notifies
CommitMessage(c, u, e) ==
    /\ db_messages' = db_messages \cup {e}
    /\ pg' = pg_notify(pg, Notification("channel_messages", "INSERT", c, e, u))

\* handle_new_message: commit, then manager.broadcast_message
WSNewMessage(k, c) ==
    /\ WsReady(k) /\ verify_channel_access(connUser[k], c)
    /\ nextEvent < MaxCommands
    /\ LET e == nextEvent + 1
           u == connUser[k]
       IN  /\ CommitMessage(c, u, e)
           /\ SetWs(ws_broadcast_to_channel(WsWorld, StrKey(c), Frame("message", c, u, e), NoUser))
           /\ nextEvent' = e
    /\ UNCHANGED <<connState, connKind, connUser, sse_stream, peerGone, SseVars>>

\* handle_new_message that does not get to the broadcast: the caller is no
\* member of the channel ({"error": "Access denied to channel"} is returned),
\* or db.commit() raises in create_message_in_db and the `except Exception`
\* of the receive loop sends an error frame
WSNewMessageFails(k, c, committed) ==
    /\ WsReady(k)
    /\ nextEvent < MaxCommands
    /\ ~verify_channel_access(connUser[k], c) \/ ~committed
    /\ nextEvent' = nextEvent + 1
    /\ outbox' = IF verify_channel_access(connUser[k], c)
                 THEN [outbox EXCEPT ![k] = Append(@, ErrorFrame(connUser[k], nextEvent + 1))]
                 ELSE outbox
    /\ UNCHANGED <<connState, connKind, connUser, sse_stream, peerGone, WsVars, SseVars, db_messages, pg>>

\* handle_typing_indicator: manager.broadcast_typing_indicator excludes the sender
WSTyping(k, c) ==
    /\ WsReady(k) /\ verify_channel_access(connUser[k], c)
    /\ nextEvent < MaxCommands
    /\ LET e == nextEvent + 1
           u == connUser[k]
       IN  /\ SetWs(ws_broadcast_to_channel(WsWorld, StrKey(c), Frame("typing", c, u, e), u))
           /\ nextEvent' = e
    /\ UNCHANGED <<connState, connKind, connUser, sse_stream, peerGone, SseVars, db_messages, pg>>

\* handle_read_receipt: manager.broadcast_read_receipt passes no exclude_user
WSReadReceipt(k, c) ==
    /\ WsReady(k) /\ verify_channel_access(connUser[k], c)
    /\ nextEvent < MaxCommands
    /\ LET e == nextEvent + 1
           u == connUser[k]
       IN  /\ SetWs(ws_broadcast_to_channel(WsWorld, StrKey(c), Frame("read_receipt", c, u, e), NoUser))
           /\ nextEvent' = e
    /\ UNCHANGED <<connState, connKind, connUser, sse_stream, peerGone, SseVars, db_messages, pg>>

\* handle_message_reaction: the reaction is committed (the trigger notifies),
\* then manager.broadcast_to_channel with no exclude_user
WSReaction(k, c) ==
    /\ WsReady(k) /\ verify_channel_access(connUser[k], c)
    /\ nextEvent < MaxCommands
    /\ LET e == nextEvent + 1
           u == connUser[k]
       IN  /\ pg' = pg_notify(pg, Notification("message_reactions", "INSERT", c, e, u))
           /\ SetWs(ws_broadcast_to_channel(WsWorld, StrKey(c), Frame("message_reaction", c, u, e), NoUser))
           /\ nextEvent' = e
    /\ UNCHANGED <<connState, connKind, connUser, sse_stream, peerGone, SseVars, db_messages>>

\* EVENT_HANDLERS, and what the handler of a command on channel c returns to
\* the receive loop (which sends it in the ack frame): "error" stands for
\* {"error": "Access denied to channel"}, the others for the status returned
EVENT_HANDLERS ==
    {"new_message", "typing", "read_receipt", "join_channel", "leave_channel",
     "message_reaction"}
handler_response(type, u, c) ==
    IF type = "leave_channel" THEN "left"
    ELSE IF ~verify_channel_access(u, c) THEN "error"
    ELSE IF type = "join_channel" THEN "joined"
    ELSE "sent"

BroadcastKinds == {"message", "typing", "read_receipt"}
\* the exclude_user each manager's broadcast_message / broadcast_typing_indicator
\* / broadcast_read_receipt passes to broadcast_to_channel
ws_exclude(kind, u) == IF kind = "typing" THEN u ELSE NoUser
sse_exclude(kind, u) == IF kind \in {"typing", "read_receipt"} THEN u ELSE NoUser

\* ConnectionManager.broadcast_to_channel with one of its send_text calls
\* suspended (a slow peer): the loops run over the sets themselves,
\*     for user_id in self.channel_members[channel_id]: ...
\*         for websocket in self.active_connections[user_id]: await send_text
\* us and ss are the orders in which the two sets are iterated, `at` is the
\* socket whose send_text suspends.  The job keeps the rest of both
\* iterations: users, cur (its head is `at`), and the two sets as they were
\* when their iteration began (subs: the members, snap: the sockets).
WsSocksOfAll(us) ==
    UNION {IF OHas(ws_active_connections, us[i]) THEN OGet(ws_active_connections, us[i])
           ELSE {} : i \in DOMAIN us}
WSBroadcastSlow(k, c, kind, at) ==
    /\ WsReady(k) /\ verify_channel_access(connUser[k], c)
    /\ nextEvent < MaxCommands
    /\ HasKey(ws_channel_members, StrKey(c))
    /\ LET e == nextEvent + 1
           u == connUser[k]
           frame == Frame(kind, c, u, e)
           members == ws_channel_members[StrKey(c)]
       IN  /\ \E us \in Perms(members), i \in 1..Cardinality(members) :
                 /\ us[i] # ws_exclude(kind, u)
                 /\ OHas(ws_active_connections, us[i])
                 /\ at \in OGet(ws_active_connections, us[i])
                 /\ \E ss \in Perms(OGet(ws_active_connections, us[i])),
                       j \in 1..Cardinality(OGet(ws_active_connections, us[i])) :
                       /\ ss[j] = at
                       /\ LET before == SelectSeq(SubSeq(us, 1, i - 1),
                                                  LAMBDA v : v # ws_exclude(kind, u))
                              done == WsSocksOfAll(before) \cup {ss[x] : x \in 1..(j - 1)}
                          IN  /\ outbox' = SendAll(outbox, done, frame)
                              /\ tasks' = tasks \cup
                                   {[frame |-> frame,
                                     users |-> SubSeq(us, i + 1, Len(us)),
                                     cur |-> SubSeq(ss, j, Len(ss)),
                                     subs |-> members,
                                     ready |-> {},
                                     snap |-> OGet(ws_active_connections, us[i]),
                                     then |-> <<>>,
                                     sender |-> k]}
           /\ IF kind = "message" THEN CommitMessage(c, u, e)
              ELSE UNCHANGED <<db_messages, pg>>
           /\ nextEvent' = e
    /\ UNCHANGED <<connState, connKind, connUser, sse_stream, peerGone, WsVars,
                   sse_user_connections, sse_channel_members, sse_user_presence, queue>>

\* The suspended send_text returns and the loops go on.  A set iterator
\* raises RuntimeError("Set changed size during iteration") from its next
\* step when the size of its set is no longer the one it started with (a
\* set that was emptied and dropped from its dict has changed size; one that
\* was dropped and created anew with the same size is taken as unchanged
\* here).  The error leaves broadcast_to_channel and the handler; the
\* endpoint's `except Exception` answers the sender with an error frame
\* (when the sender's peer is gone that send raises and the endpoint goes on
\* to disconnect).
ws_inner_intact(job) ==
    LET u0 == connUser[Head(job.cur)]
    IN  /\ OHas(ws_active_connections, u0)
        /\ Cardinality(OGet(ws_active_connections, u0)) = Cardinality(job.snap)
ws_outer_intact(job) ==
    LET key == StrKey(job.frame.chan)
    IN  /\ HasKey(ws_channel_members, key)
        /\ Cardinality(ws_channel_members[key]) = Cardinality(job.subs)
ws_iter_raises(job) == ~(ws_inner_intact(job) /\ ws_outer_intact(job))
WSSendResume(job) ==
    /\ job \in tasks
    /\ job.sender \in Conns
    /\ LET k == job.sender
           innerOk == ws_inner_intact(job)
           rest == SelectSeq(job.users, LAMBDA v : v # ws_exclude(job.frame.type, job.frame.user))
           reached == {Head(job.cur)}
                         \cup (IF innerOk THEN {job.cur[x] : x \in 2..Len(job.cur)} ELSE {})
                         \cup (IF ws_iter_raises(job) THEN {} ELSE WsSocksOfAll(rest))
           sent == SendAll(outbox, reached, job.frame)
       IN  /\ outbox' = IF ws_iter_raises(job) /\ ~peerGone[k]
                        THEN [sent EXCEPT ![k] = Append(@, ErrorFrame(connUser[k], job.frame.id))]
                        ELSE sent
           /\ tasks' = tasks \ {job}
    /\ UNCHANGED <<connState, connKind, connUser, sse_stream, peerGone, WsVars,
                   sse_user_connections, sse_channel_members, sse_user_presence, queue,
                   nextEvent, db_messages, pg>>

\* A text frame the client sends: whether json.loads accepts it, whether the
\* value is an object (has .get), and the value of its "type" ("-" for none)
InboundFrames ==
    {[json |-> FALSE, object |-> FALSE, type |-> "-"],
     [json |-> TRUE, object |-> FALSE, type |-> "-"],
     [json |-> TRUE, object |-> TRUE, type |-> "-"],
     [json |-> TRUE, object |-> TRUE, type |-> "bogus"],
     [json |-> TRUE, object |-> TRUE, type |-> "typing"]}

\* a receive loop without the inner except clauses: what json.loads or
\* message.get raises leaves the loop
ws_frame_outcome_unguarded(f) ==
    IF ~f.json \/ ~f.object THEN "raise"
    ELSE IF f.type \in EVENT_HANDLERS THEN "handled" ELSE "error"
\* the body of the receive loop for one frame: json.loads raises
\* JSONDecodeError (its except clause sends an error frame), message.get on
\* a value that is no object raises AttributeError (`except Exception` sends
\* an error frame), a type outside EVENT_HANDLERS is answered with an error
\* frame, any other is handed to its handler
ws_frame_outcome(f) ==
    IF ~f.json THEN "error"
    ELSE IF ~f.object THEN "error"
    ELSE IF f.type \in EVENT_HANDLERS THEN "handled" ELSE "error"

\* the loop receives a frame that no handler gets: the error frame is sent
\* and the loop goes on; an exception that leaves the loop reaches the outer
\* except clause, which calls manager.disconnect
WSReceiveOther(k, f) ==
    /\ WsReady(k)
    /\ nextEvent < MaxCommands
    /\ ws_frame_outcome(f) # "handled"
    /\ nextEvent' = nextEvent + 1
    /\ IF ws_frame_outcome(f) = "error"
       THEN /\ outbox' = [outbox EXCEPT ![k] = Append(@, ErrorFrame(connUser[k], nextEvent + 1))]
            /\ UNCHANGED <<connState, WsVars>>
       ELSE LET w == ws_disconnect(WsWorld, k, connUser[k])
            IN  /\ SetWs(IF w.blocked THEN w ELSE Forget(w, k))
                /\ connState' = After(w, k, "closed")
    /\ UNCHANGED <<connKind, connUser, sse_stream, peerGone, SseVars, db_messages, pg>>

\* ConnectionManager.send_personal_message called for one user
WSSendPersonal(u) ==
    /\ nextEvent < MaxCommands
    /\ LET e == nextEvent + 1
           w == ws_send_personal_message(WsWorld, u, Frame("notice", NoChan, u, e))
       IN  /\ SetWs(w)
           /\ nextEvent' = e
    /\ UNCHANGED <<connState, connKind, connUser, sse_stream, peerGone, SseVars, db_messages, pg>>

\* send_personal_message with one of its send_text calls suspended: the loop
\*     for websocket in self.active_connections[user_id]: await send_text
\* runs over the set itself, in the order ss; `at` is the socket whose send
\* suspends.  The job keeps the rest of the iteration (cur, its head is
\* `at`), the set as it was when the iteration began (snap) and the sockets
\* whose send has raised so far (disconnected).  Its caller is no endpoint
\* task of a connection: sender is MaxConn + 1, the handle of no connection.
WSSendPersonalSlow(u, at) ==
    /\ nextEvent < MaxCommands
    /\ OHas(ws_active_connections, u)
    /\ at \in OGet(ws_active_connections, u)
    /\ LET e == nextEvent + 1
           socks == OGet(ws_active_connections, u)
           frame == Frame("notice", NoChan, u, e)
       IN  /\ \E ss \in Perms(socks), j \in 1..Cardinality(socks) :
                 /\ ss[j] = at
                 /\ LET before == {ss[x] : x \in 1..(j - 1)}
                    IN  /\ outbox' = SendAll(outbox, before, frame)
                        /\ tasks' = tasks \cup
                             {[frame |-> frame, users |-> <<>>,
                               cur |-> SubSeq(ss, j, Len(ss)),
                               subs |-> {}, ready |-> {}, snap |-> socks,
                               then |-> <<>>, sender |-> MaxConn + 1,
                               disconnected |-> {x \in before : peerGone[x]}]}
           /\ nextEvent' = e
    /\ UNCHANGED <<connState, connKind, connUser, sse_stream, peerGone, WsVars,
                   sse_user_connections, sse_channel_members, sse_user_presence, queue,
                   db_messages, pg>>

\* the set iterator's next step after the suspended send: RuntimeError when
\* the size of the set is not the one the iteration began with (the set of
\* a user who was removed has been emptied)
ws_personal_raises(job) ==
    ~(/\ OHas(ws_active_connections, job.frame.user)
      /\ Cardinality(OGet(ws_active_connections, job.frame.user)) = Cardinality(job.snap))

\* The suspended send_text returns and the loop goes on.  The RuntimeError
\* is raised outside the try of the loop body: it leaves
\* send_personal_message, and the sockets that failed are not cleaned up.
\* Without it the loop ends and the failed sockets are removed under the
\* lock (a caller that finds the lock held waits for it).
WSPersonalResume(job) ==
    /\ job \in tasks
    /\ job.sender = MaxConn + 1
    /\ LET u == job.frame.user
           raises == ws_personal_raises(job)
           reached == {Head(job.cur)} \cup
                          (IF raises THEN {} ELSE {job.cur[x] : x \in 2..Len(job.cur)})
           failed == job.disconnected \cup {x \in reached : peerGone[x]}
       IN  /\ outbox' = SendAll(outbox, reached, job.frame)
           /\ ws_active_connections' =
                  IF ~raises /\ failed # {} /\ ws_lock = {}
                  THEN OPut(ws_active_connections, u, OGet(ws_active_connections, u) \ failed)
                  ELSE ws_active_connections
           /\ tasks' = tasks \ {job}
    /\ UNCHANGED <<connState, connKind, connUser, sse_stream, peerGone,
                   ws_channel_members, ws_user_presence, ws_lock, presenceSeen,
                   sse_user_connections, sse_channel_members, sse_user_presence, queue,
                   nextEvent, db_messages, pg>>

\* ------------------------------------------------------ sse.py: event_stream
\* event_stream up to sse_manager.connect: a new Queue(maxsize) is registered
SSEConnect(k, u) ==
    /\ Fresh(k)
    /\ SetSse(sse_connect(SseWorld, k, u))
    /\ connState' = [connState EXCEPT ![k] = "registered"]
    /\ connKind' = [connKind EXCEPT ![k] = "sse"]
    /\ connUser' = [connUser EXCEPT ![k] = u]
    /\ UNCHANGED <<peerGone, outbox, WsVars, queue, tasks, nextEvent, db_messages, pg, sse_stream>>

RECURSIVE SseJoinAll(_, _, _)
SseJoinAll(w, keys, u) ==
    IF keys = {} THEN w
    ELSE LET key == CHOOSE x \in keys : TRUE
         IN  SseJoinAll(sse_join_channel(w, key, u), keys \ {key}, u)

\* the confirmation is yielded, then the auto-join under str(row[0])
SSEHandshake(k) ==
    /\ SseLive(k) /\ connState[k] = "registered"
    /\ LET u == connUser[k]
           keys == {StrKey(c) : c \in ChannelsOf(u)}
       IN  /\ SetSse(SseJoinAll(SseWorld, keys, u))
           /\ outbox' = [outbox EXCEPT ![k] = Append(@, ConnectionFrame(u))]
    /\ connState' = [connState EXCEPT ![k] = "open"]
    /\ sse_stream' = [sse_stream EXCEPT ![k] = NoStream]
    /\ UNCHANGED <<connKind, connUser, peerGone, WsVars, queue, tasks, nextEvent, db_messages, pg>>

\* the loop of event_stream: queue.get(), then the data frame is yielded
SSEYield(k) ==
    /\ SseLive(k) /\ connState[k] = "open"
    /\ queue[k] # <<>>
    /\ outbox' = [outbox EXCEPT ![k] = Append(@, Head(queue[k]))]
    /\ queue' = [queue EXCEPT ![k] = Tail(@)]
    /\ sse_stream' = [sse_stream EXCEPT ![k].since_event = 0]
    /\ UNCHANGED <<connState, connKind, connUser, peerGone, WsVars,
                   sse_user_connections, sse_channel_members, sse_user_presence,
                   tasks, nextEvent, db_messages, pg>>

\* the finally clause of event_stream
SSEDisconnect(k) ==
    /\ SseLive(k)
    /\ SetSse(sse_disconnect(SseWorld, k, connUser[k]))
    /\ connState' = [connState EXCEPT ![k] = "closed"]
    /\ outbox' = [outbox EXCEPT ![k] = <<>>]
    /\ sse_stream' = [sse_stream EXCEPT ![k] = NoStream]
    /\ UNCHANGED <<connKind, connUser, peerGone, WsVars, queue, tasks,
                   nextEvent, db_messages, pg>>

\* a keep-alive path that takes the event waiting in the queue with it
SSEPing_taking(k) ==
    /\ SseLive(k) /\ connState[k] = "open"
    /\ sse_stream[k].since_ping >= PingInterval
    /\ sse_stream' = [sse_stream EXCEPT ![k].since_ping = 0]
    /\ queue' = [queue EXCEPT ![k] = IF @ = <<>> THEN @ ELSE Tail(@)]
    /\ UNCHANGED <<connState, connKind, connUser, peerGone, outbox, WsVars,
                   sse_user_connections, sse_channel_members, sse_user_presence, tasks,
                   nextEvent, db_messages, pg>>
\* the top of the loop when time_until_ping <= 0 (the wait_for before it has
\* timed out, or the consumer took that long): ": ping" is yielded and
\* last_ping is set; the queue is not read.  The ping is a comment line, no
\* frame: outbox does not keep it.
SSEPing(k) ==
    /\ SseLive(k) /\ connState[k] = "open"
    /\ sse_stream[k].since_ping >= PingInterval
    /\ sse_stream' = [sse_stream EXCEPT ![k].since_ping = 0]
    /\ UNCHANGED <<connState, connKind, connUser, peerGone, outbox, WsVars, SseVars,
                   nextEvent, db_messages, pg>>

\* one unit of time passes for the open streams (each waits in wait_for or
\* at a yield)
TimePasses ==
    /\ \E k \in Conns : SseLive(k) /\ connState[k] = "open"
    /\ sse_stream' = [k \in Conns |->
                         IF SseLive(k) /\ connState[k] = "open"
                         THEN [f \in {"since_ping", "since_event"} |->
                                  IF sse_stream[k][f] < PingInterval
                                  THEN sse_stream[k][f] + 1 ELSE sse_stream[k][f]]
                         ELSE sse_stream[k]]
    /\ sse_stream' # sse_stream
    /\ UNCHANGED <<connState, connKind, connUser, peerGone, outbox, WsVars, SseVars,
                   nextEvent, db_messages, pg>>

\* SSEConnectionManager.join_channel / leave_channel called for the user of
\* an open stream (the stream itself carries no commands)
SSEJoin(k, c) ==
    /\ SseLive(k) /\ connState[k] = "open" /\ verify_channel_access(connUser[k], c)
    /\ SetSse(sse_join_channel(SseWorld, StrKey(c), connUser[k]))
    /\ UNCHANGED <<connState, connKind, connUser, sse_stream, peerGone, outbox, WsVars, queue, tasks,
                   nextEvent, db_messages, pg>>

SSELeave(k, c) ==
    /\ SseLive(k) /\ connState[k] = "open"
    /\ SetSse(sse_leave_channel(SseWorld, StrKey(c), connUser[k]))
    /\ UNCHANGED <<connState, connKind, connUser, sse_stream, peerGone, outbox, WsVars, queue, tasks,
                   nextEvent, db_messages, pg>>

\* the state of the dicts as the claims read them
WsSocksOf(u) == IF OHas(ws_active_connections, u) THEN OGet(ws_active_connections, u) ELSE {}
WsMembers(key) == IF HasKey(ws_channel_members, key) THEN ws_channel_members[key] ELSE {}
SseConnsOf(u) == IF HasKey(sse_user_connections, u) THEN sse_user_connections[u] ELSE {}
SseMembers(key) == IF HasKey(sse_channel_members, key) THEN sse_channel_members[key] ELSE {}
Range(f) == {f[i] : i \in DOMAIN f}

\* a send starts: it runs to its end or to the first full queue
Registered(uc) == UNION {uc[u] : u \in DOMAIN uc}

SseStart(job) ==
    \E order \in Perms(Registered(sse_user_connections)) :
        LET r == sse_run(job, queue, sse_user_connections, order)
        IN  /\ queue' = r.q
            /\ tasks' = IF r.done THEN tasks ELSE tasks \cup {r.job}

\* SSEConnectionManager.send_to_user called for one user
SSESendToUser(u) ==
    /\ nextEvent < MaxEvents
    /\ SseStart(sse_job(Frame("notice", NoChan, u, nextEvent + 1), <<u>>,
                        queue, sse_user_connections, {}))
    /\ nextEvent' = nextEvent + 1
    /\ UNCHANGED <<connState, connKind, connUser, sse_stream, peerGone, outbox, WsVars,
                   sse_user_connections, sse_channel_members, sse_user_presence,
                   db_messages, pg>>

\* a consumer has made room: the suspended put goes on
SSEResume(job) ==
    /\ job \in tasks
    /\ job.sender = 0
    /\ ~sse_queue_full(queue, Head(job.cur))
    /\ \E order \in Perms(Registered(sse_user_connections)) :
         LET r == sse_run(job, queue, sse_user_connections, order)
         IN  /\ queue' = r.q
             /\ tasks' = (tasks \ {job}) \cup (IF r.done THEN {} ELSE {r.job})
             /\ pg' = IF r.done /\ job.then # <<>>
                      THEN [pg EXCEPT !.called = pg_run_callbacks(job.then)]
                      ELSE pg
    /\ UNCHANGED <<connState, connKind, connUser, sse_stream, peerGone, outbox, WsVars,
                   sse_user_connections, sse_channel_members, sse_user_presence,
                   nextEvent, db_messages>>

\* --------------------------------------------- pg_listener.py: the listener
BridgeOnly == <<connState, connKind, connUser, sse_stream, peerGone, outbox, WsVars, SseVars,
                nextEvent, db_messages>>

\* start_listening begins: is_running = True, then connect() is awaited
PgRun ==
    /\ pg.task = "running" /\ pg.pc = "start"
    /\ pg' = [pg EXCEPT !.is_running = TRUE, !.pc = "connect"]
    /\ UNCHANGED BridgeOnly

\* connect() returns or raises (first connection and reconnection alike)
PgConnect ==
    /\ pg.task = "running" /\ pg.pc \in {"connect", "reconnect"}
    /\ pg' = pg_connect(pg)
    /\ UNCHANGED BridgeOnly

\* listen('channel_messages'), then listen('message_reactions')
PgListenMessages ==
    /\ pg.task = "running" /\ pg.pc \in {"listen1", "relisten1"}
    /\ pg' = pg_listen(pg, "channel_messages", IF pg.pc = "listen1" THEN "listen2" ELSE "relisten2")
    /\ UNCHANGED BridgeOnly

PgListenReactions ==
    /\ pg.task = "running" /\ pg.pc \in {"listen2", "relisten2"}
    /\ pg' = pg_listen(pg, "message_reactions", "sleep")
    /\ UNCHANGED BridgeOnly

\* sleep(1) is over and the connection is found closed
PgPoll ==
    /\ pg.task = "running" /\ pg.pc = "sleep"
    /\ pg.connection = "closed"
    /\ pg' = pg_poll(pg)
    /\ UNCHANGED BridgeOnly

\* register_callback called once the application runs
RegisterCallback(name, h) ==
    /\ Len(pg.others["channel_messages"]) + Len(pg.others["message_reactions"]) < MaxCallbacks
    /\ pg' = pg_register_callback(pg, name, h)
    /\ UNCHANGED BridgeOnly

\* lifespan shutdown: stop_listening
PgStop ==
    /\ ~pg.stopped
    /\ pg' = pg_stop(pg)
    /\ UNCHANGED BridgeOnly

\* the store connection is closed from outside; with outage the store
\* refuses connections until it is restored
StoreDrop(outage) ==
    /\ pg.connection = "open"
    /\ pg.drops < MaxDrops
    /\ pg' = [pg EXCEPT !.connection = "closed", !.listeners = {},
                        !.drops = @ + 1, !.storeUp = ~outage]
    /\ UNCHANGED BridgeOnly

StoreRestore ==
    /\ ~pg.storeUp
    /\ pg' = [pg EXCEPT !.storeUp = TRUE]
    /\ UNCHANGED BridgeOnly

\* a row is written through another backend process (its handler commits
\* it; what it broadcasts stays in that process)
Operations == {"INSERT", "UPDATE", "DELETE"}
TriggerFires(t, o) == ~(t = "message_reactions" /\ o = "UPDATE")

RemoteUser == "remote"

RemoteWrite(t, o, c) ==
    /\ nextEvent < MaxEvents
    /\ pg.storeUp
    /\ TriggerFires(t, o)
    /\ nextEvent' = nextEvent + 1
    /\ db_messages' = IF t = "channel_messages" /\ o = "INSERT"
                      THEN db_messages \cup {nextEvent + 1} ELSE db_messages
    /\ pg' = pg_notify(pg, Notification(t, o, c, nextEvent + 1, RemoteUser))
    /\ UNCHANGED <<connState, connKind, connUser, sse_stream, peerGone, outbox, WsVars, SseVars>>

\* _handle_notification: the callbacks registered for the name are awaited;
\* handle_pg_notification broadcasts the event of (table, operation) to
\* str(channel_id)
PgHandle ==
    /\ pg.inbox # <<>>
    /\ LET n == Head(pg.inbox)
           type == sse_event_type(n.table, n.operation)
           key == StrKey(n.channel_id)
           frame == Frame(type, n.channel_id, n.user_id, n.id)
           members == sse_recipients(sse_channel_members, key, NoUser)
           rest == pg.others[n.table]
       IN  /\ IF n.table \in pg.callbacks /\ type # ""
              THEN /\ \E us \in Perms(members) :
                        SseStart([sse_job(frame, us, queue, sse_user_connections,
                                          SseMembers(key)) EXCEPT !.then = rest])
              ELSE UNCHANGED <<queue, tasks>>
           /\ pg' = [pg EXCEPT !.inbox = Tail(@),
                               !.called = IF tasks' = tasks THEN pg_run_callbacks(rest)
                                          ELSE <<>>]
    /\ UNCHANGED <<connState, connKind, connUser, sse_stream, peerGone, outbox, WsVars,
                   sse_user_connections, sse_channel_members, sse_user_presence,
                   nextEvent, db_messages>>

\* ---------------------------------------------------------- specifications
WsNext ==
    \/ \E k \in Conns, u \in Users : WSConnect(k, u)
    \/ \E k \in Conns : WSHandshake(k)
    \/ \E k \in Conns : PeerClose(k)
    \/ \E k \in Conns : WSDisconnect(k)
    \/ \E k \in Conns : WSCancel(k)
    \/ \E k \in Conns, c \in Channels : WSJoin(k, c)
    \/ \E k \in Conns, c \in Channels : WSLeave(k, c)
    \/ \E k \in Conns, c \in Channels : WSNewMessage(k, c)
    \/ \E k \in Conns, c \in Channels : WSTyping(k, c)
    \/ \E k \in Conns, c \in Channels : WSReadReceipt(k, c)
    \/ \E k \in Conns, c \in Channels : WSReaction(k, c)
    \/ \E k \in Conns, f \in InboundFrames : WSReceiveOther(k, f)
    \/ \E k \in Conns, c \in Channels, committed \in BOOLEAN : WSNewMessageFails(k, c, committed)
    \/ \E k \in Conns, c \in Channels, kind \in BroadcastKinds, at \in Conns :
          WSBroadcastSlow(k, c, kind, at)
    \/ \E job \in tasks : WSSendResume(job)
    \/ \E u \in Users : WSSendPersonal(u)
    \/ \E u \in Users, at \in Conns : WSSendPersonalSlow(u, at)
    \/ \E job \in tasks : WSPersonalResume(job)

SseNext ==
    \/ \E k \in Conns, u \in Users : SSEConnect(k, u)
    \/ \E k \in Conns : SSEHandshake(k)
    \/ \E k \in Conns : SSEYield(k)
    \/ \E k \in Conns : SSEDisconnect(k)
    \/ \E k \in Conns, c \in Channels : SSEJoin(k, c)
    \/ \E k \in Conns, c \in Channels : SSELeave(k, c)
    \/ \E u \in Users : SSESendToUser(u)
    \/ \E job \in tasks : SSEResume(job)

\* the listener comes up
PgBoot ==
    \/ PgRun
    \/ PgConnect
    \/ PgListenMessages
    \/ PgListenReactions

\* writes of other processes and the handling of their notifications
PgFeed ==
    \/ \E t \in Tables, o \in Operations, c \in Channels : RemoteWrite(t, o, c)
    \/ PgHandle

\* faults of the store connection, and shutdown
PgFaults ==
    \/ PgPoll
    \/ PgStop
    \/ \E outage \in BOOLEAN : StoreDrop(outage)
    \/ StoreRestore

Next == WsNext \/ SseNext \/ PgBoot \/ PgFeed \/ PgFaults

Spec == Init /\ [][Next]_vars

\* the managers and the listener on their own
WsSpec == Init /\ [][WsNext]_vars

\* the listener with the store and its faults, no client connected
PgSpec == Init /\ [][PgBoot \/ PgFeed \/ PgFaults]_vars

\* The state once the listener has come up (PgSpec reaches it: ListenerUp):
\* the SSE manager and both managers together are explored from there, with
\* messages inserted through other processes.
PgListening ==
    [PgInit EXCEPT !.is_running = TRUE, !.connection = "open", !.pc = "sleep",
                   !.listeners = {"channel_messages", "message_reactions"}]
ListenerUp == pg = PgListening
InitListening ==
    /\ connState = [k \in Conns |-> "new"]
    /\ connKind = [k \in Conns |-> "none"]
    /\ connUser = [k \in Conns |-> NoUser]
    /\ sse_stream = [k \in Conns |-> NoStream]
    /\ peerGone = [k \in Conns |-> FALSE]
    /\ outbox = [k \in Conns |-> <<>>]
    /\ presenceSeen = [k \in Conns |-> NoPresence]
    /\ ws_active_connections = <<>>
    /\ ws_channel_members = EmptyDict
    /\ ws_user_presence = {}
    /\ ws_lock = {}
    /\ sse_user_connections = EmptyDict
    /\ sse_channel_members = EmptyDict
    /\ sse_user_presence = {}
    /\ queue = [k \in Conns |-> <<>>]
    /\ tasks = {}
    /\ nextEvent = 0
    /\ db_messages = {}
    /\ pg = PgListening

RemoteInsert(c) == RemoteWrite("channel_messages", "INSERT", c)

SseFeed ==
    \/ \E c \in Channels : RemoteInsert(c)
    \/ PgHandle

SseSpec == InitListening /\ [][SseNext \/ SseFeed]_vars

\* the listener that is up with callbacks added to it, the connections of
\* one SSE subscriber that its first callback serves, and rows inserted for
\* the subscriber's channel by other processes
HandlerNext ==
    \/ \E name \in Tables, h \in OtherCallbacks : RegisterCallback(name, h)
    \/ \E t \in Tables : RemoteWrite(t, "INSERT", "c1")
    \/ PgHandle
    \/ \E k \in Conns : SSEConnect(k, "u1")
    \/ \E k \in Conns : SSEHandshake(k)
    \/ \E k \in Conns : SSEYield(k)
    \/ \E job \in tasks : SSEResume(job)
HandlerSpec == InitListening /\ [][HandlerNext]_vars

\* The two managers driven by one sequence of calls: every call is made on
\* both, with the same arguments (handle k stands for the socket in one and
\* for the queue in the other).

PairConnect(k, u) ==
    /\ Fresh(k)
    /\ SetWs(ws_connect(WsWorld, k, u))
    /\ SetSse(sse_connect(SseWorld, k, u))
    /\ connState' = [connState EXCEPT ![k] = "open"]
    /\ connKind' = [connKind EXCEPT ![k] = "pair"]
    /\ connUser' = [connUser EXCEPT ![k] = u]
    /\ UNCHANGED <<peerGone, queue, tasks, nextEvent, db_messages, pg, sse_stream>>

PairOpen(k) == connKind[k] = "pair" /\ connState[k] = "open"

PairDisconnect(k) ==
    /\ PairOpen(k)
    /\ SetWs(Forget(ws_disconnect(WsWorld, k, connUser[k]), k))
    /\ SetSse(sse_disconnect(SseWorld, k, connUser[k]))
    /\ connState' = [connState EXCEPT ![k] = "closed"]
    /\ queue' = [queue EXCEPT ![k] = <<>>]
    /\ UNCHANGED <<connKind, connUser, sse_stream, peerGone, tasks, nextEvent, db_messages, pg>>

PairJoin(k, c) ==
    /\ PairOpen(k)
    /\ SetWs(ws_join_channel(WsWorld, StrKey(c), connUser[k]))
    /\ SetSse(sse_join_channel(SseWorld, StrKey(c), connUser[k]))
    /\ UNCHANGED <<connState, connKind, connUser, sse_stream, peerGone, queue, tasks, nextEvent,
                   db_messages, pg>>

PairLeave(k, c) ==
    /\ PairOpen(k)
    /\ SetWs(ws_leave_channel(WsWorld, StrKey(c), connUser[k]))
    /\ SetSse(sse_leave_channel(SseWorld, StrKey(c), connUser[k]))
    /\ UNCHANGED <<connState, connKind, connUser, sse_stream, peerGone, queue, tasks, nextEvent,
                   db_messages, pg>>

\* the broadcast of one event of user u to channel c on both managers
PairBroadcast(kind, c, u) ==
    /\ nextEvent < MaxCommands
    /\ \A k \in Conns : queue[k] = <<>>
    /\ LET e == nextEvent + 1
           frame == Frame(kind, c, u, e)
           members == sse_recipients(sse_channel_members, StrKey(c), sse_exclude(kind, u))
       IN  /\ SetWs(ws_broadcast_to_channel(WsWorld, StrKey(c), frame, ws_exclude(kind, u)))
           /\ \E us \in Perms(members) :
                 SseStart(sse_job(frame, us, queue, sse_user_connections,
                                  SseMembers(StrKey(c))))
           /\ nextEvent' = e
    /\ UNCHANGED <<connState, connKind, connUser, sse_stream, peerGone, sse_user_connections,
                   sse_channel_members, sse_user_presence, db_messages, pg>>

\* the client of the stream reads what is queued
PairRead(k) ==
    /\ PairOpen(k) /\ queue[k] # <<>>
    /\ queue' = [queue EXCEPT ![k] = Tail(@)]
    /\ UNCHANGED <<connState, connKind, connUser, sse_stream, peerGone, outbox, WsVars,
                   sse_user_connections, sse_channel_members, sse_user_presence,
                   tasks, nextEvent, db_messages, pg>>

PairNext ==
    \/ \E k \in Conns, u \in Users : PairConnect(k, u)
    \/ \E k \in Conns : PairDisconnect(k)
    \/ \E k \in Conns, c \in Channels : PairJoin(k, c)
    \/ \E k \in Conns, c \in Channels : PairLeave(k, c)
    \/ \E kind \in BroadcastKinds, c \in Channels, u \in Users : PairBroadcast(kind, c, u)
    \/ \E k \in Conns : PairRead(k)
PairSpec == Init /\ [][PairNext]_vars

\* either manager with its endpoint, the other one unused (the two share no
\* state): the WebSocket manager while the listener task has not connected
\* yet, the SSE manager once it is listening, with up to EachEvents events
\* (SseSpec goes on to MaxEvents)
WsOnly == ~pg.is_running
SseOnly == pg.is_running
EachInit == Init \/ InitListening
EachNext ==
    \/ \E k \in Conns, u \in Users : WsOnly /\ WSConnect(k, u)
    \/ \E k \in Conns : WsOnly /\ WSHandshake(k)
    \/ \E k \in Conns : WsOnly /\ PeerClose(k)
    \/ \E k \in Conns : WsOnly /\ WSDisconnect(k)
    \/ \E k \in Conns : WsOnly /\ WSCancel(k)
    \/ \E k \in Conns, c \in Channels : WsOnly /\ WSJoin(k, c)
    \/ \E k \in Conns, c \in Channels : WsOnly /\ WSLeave(k, c)
    \/ \E k \in Conns, c \in Channels : WsOnly /\ WSNewMessage(k, c)
    \/ \E k \in Conns, c \in Channels : WsOnly /\ WSTyping(k, c)
    \/ \E k \in Conns, c \in Channels : WsOnly /\ WSReadReceipt(k, c)
    \/ \E k \in Conns, c \in Channels : WsOnly /\ WSReaction(k, c)
    \/ \E k \in Conns, f \in InboundFrames : WsOnly /\ WSReceiveOther(k, f)
    \/ \E k \in Conns, c \in Channels, committed \in BOOLEAN :
          WsOnly /\ WSNewMessageFails(k, c, committed)
    \/ \E k \in Conns, c \in Channels, kind \in BroadcastKinds, at \in Conns :
          WsOnly /\ WSBroadcastSlow(k, c, kind, at)
    \/ \E job \in tasks : WsOnly /\ WSSendResume(job)
    \/ \E u \in Users, at \in Conns : WsOnly /\ WSSendPersonalSlow(u, at)
    \/ \E job \in tasks : WsOnly /\ WSPersonalResume(job)
    \/ \E u \in Users : WsOnly /\ WSSendPersonal(u)
    \/ \E k \in Conns, u \in Users : SseOnly /\ SSEConnect(k, u)
    \/ \E k \in Conns : SseOnly /\ SSEHandshake(k)
    \/ \E k \in Conns : SseOnly /\ SSEYield(k)
    \/ \E k \in Conns : SseOnly /\ SSEDisconnect(k)
    \/ \E k \in Conns, c \in Channels : SseOnly /\ SSEJoin(k, c)
    \/ \E k \in Conns, c \in Channels : SseOnly /\ SSELeave(k, c)
    \/ \E u \in Users : SseOnly /\ nextEvent < EachEvents /\ SSESendToUser(u)
    \/ \E job \in tasks : SseOnly /\ SSEResume(job)
    \/ \E c \in Channels : SseOnly /\ nextEvent < EachEvents /\ RemoteInsert(c)
    \/ SseOnly /\ PgHandle
EachSpec == EachInit /\ [][EachNext]_vars
\* both managers in the process whose listener is up, the messages written
\* through another process
MixNext ==
    \/ \E k \in Conns, u \in Users : WSConnect(k, u)
    \/ \E k \in Conns : WSHandshake(k)
    \/ \E k \in Conns : PeerClose(k)
    \/ \E k \in Conns : WSDisconnect(k)
    \/ \E k \in Conns, c \in Channels : WSJoin(k, c)
    \/ \E k \in Conns, c \in Channels : WSLeave(k, c)
    \/ \E k \in Conns, u \in Users : SSEConnect(k, u)
    \/ \E k \in Conns : SSEHandshake(k)
    \/ \E k \in Conns : SSEYield(k)
    \/ \E k \in Conns : SSEDisconnect(k)
    \/ \E k \in Conns, c \in Channels : SSEJoin(k, c)
    \/ \E k \in Conns, c \in Channels : SSELeave(k, c)
    \/ \E job \in tasks : SSEResume(job)
    \/ SseFeed
MixSpec == InitListening /\ [][MixNext]_vars

\* the process whose listener is up, with WebSocket and SSE clients: a
\* message written by the new_message command is broadcast by the handler
\* and, through the trigger's notification, by the bridge
DualNext ==
    \/ \E k \in Conns, u \in Users : WSConnect(k, u)
    \/ \E k \in Conns : WSHandshake(k)
    \/ \E k \in Conns, c \in Channels : WSJoin(k, c)
    \/ \E k \in Conns, u \in Users : SSEConnect(k, u)
    \/ \E k \in Conns : SSEHandshake(k)
    \/ \E k \in Conns : SSEYield(k)
    \/ \E k \in Conns, c \in Channels : WSNewMessage(k, c)
    \/ \E k \in Conns, c \in Channels, at \in Conns : WSBroadcastSlow(k, c, "message", at)
    \/ \E job \in tasks : WSSendResume(job)
    \/ PgHandle
DualSpec == InitListening /\ [][DualNext]_vars

\* the streams of the SSE endpoint with their keep-alive clock, events sent
\* to their users
StreamNext ==
    \/ \E k \in Conns, u \in Users : SSEConnect(k, u)
    \/ \E k \in Conns : SSEHandshake(k)
    \/ \E k \in Conns : SSEYield(k)
    \/ \E k \in Conns : SSEPing(k)
    \/ TimePasses
    \/ \E k \in Conns : SSEDisconnect(k)
    \/ \E u \in Users : nextEvent < EachEvents /\ SSESendToUser(u)
    \/ \E job \in tasks : SSEResume(job)
\* the generator of an open stream is resumed as long as its client reads:
\* a queue.get() that can return does return
FairStreamSpec == InitListening /\ [][StreamNext]_vars /\ \A k \in Conns : WF_vars(SSEYield(k))

\* the listener with the scheduling asyncio gives it: a task that can run
\* does run, a notification whose callback is scheduled is handled, and an
\* outage of the store ends
PgNext == PgBoot \/ PgFeed \/ PgFaults
FairPgSpec ==
    /\ Init /\ [][PgNext]_vars
    /\ WF_vars(PgBoot) /\ WF_vars(PgPoll) /\ WF_vars(PgHandle) /\ WF_vars(StoreRestore)

\* ------------------------------------------------------------------ claims
NoticeFrame(u) == Frame("notice", NoChan, u, nextEvent + 1)

\* C1: a send to user u puts the event on every connection of u that has room
\* (every socket that takes it), and on no other connection
C1_SendReachesAllWithRoom ==
    [][\A u \in Users :
        /\ SSESendToUser(u) =>
             \A k \in Conns :
                queue'[k] = IF k \in SseConnsOf(u) /\ ~sse_queue_full(queue, k)
                            THEN Append(queue[k], NoticeFrame(u)) ELSE queue[k]
        /\ WSSendPersonal(u) =>
             \A k \in Conns :
                outbox'[k] = IF k \in WsSocksOf(u) /\ ~peerGone[k]
                             THEN Append(outbox[k], NoticeFrame(u)) ELSE outbox[k]]_vars

\* C2: the disconnect of the last connection of a user leaves the user
\* offline and in no channel's subscriber set, in both managers
C2_LastDisconnectClearsUser ==
    [][\A k \in Conns :
        /\ (WSDisconnect(k) /\ connState'[k] = "closed" /\ WsSocksOf(connUser[k]) \subseteq {k}) =>
             /\ ~ws_is_user_online(connUser[k])'
             /\ \A key \in ChannelKeys : connUser[k] \notin WsMembers(key)'
        /\ (SSEDisconnect(k) /\ SseConnsOf(connUser[k]) \subseteq {k}) =>
             /\ ~sse_is_user_online(connUser[k])'
             /\ \A key \in ChannelKeys : connUser[k] \notin SseMembers(key)']_vars

\* C3: a user is in a channel's subscriber set only while one of the user's
\* connections is open
C3_SubscriberHasOpenConnection ==
    /\ \A key \in ChannelKeys : \A u \in WsMembers(key) :
          \E k \in Conns : WsLive(k) /\ connUser[k] = u
    /\ \A key \in ChannelKeys : \A u \in SseMembers(key) :
          \E k \in Conns : SseLive(k) /\ connUser[k] = u

\* C4: a send to a user one of whose buffers is full completes at once (no
\* task is left suspended) and the user's connections with room get the event
C4_FullBufferDoesNotBlock ==
    [][\A u \in Users :
        (SSESendToUser(u) /\ \E k \in SseConnsOf(u) : sse_queue_full(queue, k)) =>
            /\ tasks' = tasks
            /\ \A k \in SseConnsOf(u) :
                  ~sse_queue_full(queue, k) => queue'[k] = Append(queue[k], NoticeFrame(u))]_vars

\* C5: a send removes from the registry exactly the connections of the
\* addressed users whose enqueue failed (socket broken, buffer full), on the
\* per-user path and on the channel broadcast path
WsKeepsWorking(us) ==
    \A u \in us : \A j \in WsSocksOf(u) : peerGone[j] <=> j \notin WsSocksOf(u)'
C5_FailedEnqueueRemovesConnection ==
    [][/\ \A u \in Users : WSSendPersonal(u) => WsKeepsWorking({u})
       /\ \A k \in Conns, c \in Channels :
             (WSNewMessage(k, c) \/ WSReadReceipt(k, c)) =>
                 WsKeepsWorking(ws_recipients(WsWorld, StrKey(c), NoUser))
       /\ \A k \in Conns, c \in Channels :
             WSTyping(k, c) => WsKeepsWorking(ws_recipients(WsWorld, StrKey(c), connUser[k]))
       /\ \A u \in Users :
             SSESendToUser(u) =>
                 \A j \in SseConnsOf(u) : sse_queue_full(queue, j) <=> j \notin SseConnsOf(u)']_vars


\* C6: a leave removes the user from the channel's set, and a broadcast to a
\* channel delivers only to connections of users who were in the channel's set
\* when it started: none that starts after the leave reaches the user
WsBroadcast(k, c) == WSNewMessage(k, c) \/ WSTyping(k, c) \/ WSReadReceipt(k, c)
C6_NoDeliveryAfterLeave ==
    [][/\ \A k \in Conns, c \in Channels :
             (WSLeave(k, c) /\ connState'[k] = "open") => connUser[k] \notin WsMembers(StrKey(c))'
       /\ \A k \in Conns, c \in Channels :
             SSELeave(k, c) => connUser[k] \notin SseMembers(StrKey(c))'
       /\ \A k \in Conns, c \in Channels :
             WsBroadcast(k, c) =>
                 \A j \in Conns : outbox'[j] # outbox[j] => connUser[j] \in WsMembers(StrKey(c))
       /\ PgHandle =>
             \A j \in Conns :
                 queue'[j] # queue[j] =>
                     connUser[j] \in SseMembers(StrKey(Head(pg.inbox).channel_id))
       /\ \A job \in tasks :
             (SSEResume(job) /\ job.frame.type # "notice") =>
                 \A j \in Conns : queue'[j] # queue[j] => connUser[j] \in job.subs]_vars

\* the case of C6: the stream j got message 1 of channel c, its user then left
\* c, and message 2 of c, fully broadcast, went to the stream k and not to j
C6_LeftUserSkipped ==
    \E j \in Conns, k \in Conns, c \in Channels :
        /\ SseLive(j) /\ connState[j] = "open" /\ SseLive(k)
        /\ connUser[j] \notin SseMembers(StrKey(c))
        /\ tasks = {} /\ pg.inbox = <<>>
        /\ \E f \in Range(outbox[j]) : f.type = "new_message" /\ f.chan = c /\ f.id = 1
        /\ \E f \in Range(outbox[k]) \cup Range(queue[k]) :
              f.type = "new_message" /\ f.chan = c /\ f.id = 2
        /\ \A f \in Range(outbox[j]) \cup Range(queue[j]) : f.id # 2

\* the connections this process holds for subscribers of channel c, and the
\* frames a connection has been handed
SubscriberConns(c) ==
    {j \in Conns :
        \/ /\ connKind[j] = "ws" /\ WsLive(j) /\ ~peerGone[j]
           /\ connUser[j] \in WsMembers(UuidKey(c)) \cup WsMembers(StrKey(c))
        \/ /\ connKind[j] = "sse" /\ j \in Registered(sse_user_connections)
           /\ connUser[j] \in SseMembers(StrKey(c))}
Handed(j) == IF connKind[j] = "ws" THEN outbox[j] ELSE queue[j]
InsertHandled ==
    /\ PgHandle
    /\ Head(pg.inbox).table = "channel_messages" /\ Head(pg.inbox).operation = "INSERT"

\* C7: handling the notification of an INSERT into channel c hands exactly one
\* new_message event to every connection of every subscriber of c, and nothing
\* to any other connection
C7_InsertFansOutOnce ==
    [][InsertHandled =>
        LET n == Head(pg.inbox)
            event == Frame("new_message", n.channel_id, n.user_id, n.id)
        IN  \A j \in Conns :
               Handed(j)' = IF j \in SubscriberConns(n.channel_id)
                            THEN Append(Handed(j), event) ELSE Handed(j)]_vars

\* C8: once the bridge has handled the notification of a message written
\* through another process, every connection of a subscriber of its channel,
\* WebSocket or SSE, has been handed an event carrying that message
C8_RemoteWriteReachesBothTransports ==
    [][(InsertHandled /\ tasks' = tasks) =>
        LET n == Head(pg.inbox)
        IN  \A j \in SubscriberConns(n.channel_id) :
               \E f \in Range(Handed(j)') : f.id = n.id /\ f.chan = n.channel_id]_vars

\* C9: after the store connection is closed under the bridge that listens (it
\* is in its keep-alive loop), the bridge listens again on both names (unless
\* it is stopped)
BridgeListening ==
    pg_is_listening(pg, "channel_messages") /\ pg_is_listening(pg, "message_reactions")
C9_ReconnectsAfterClose ==
    (pg.connection = "closed" /\ pg.pc = "sleep" /\ ~pg.stopped)
        ~> (BridgeListening \/ pg.stopped)

\* C10: a reconnect attempt (connect, or one of the two LISTENs after it)
\* leaves the listener task running, whether the attempt fails or not
Reconnecting == pg.task = "running" /\ pg.pc \in {"reconnect", "relisten1", "relisten2"}
C10_FailedReconnectIsRetried ==
    [][(Reconnecting /\ PgBoot) => (pg'.task = "running" /\ pg'.is_running)]_vars

\* C11: a connection whose endpoint task has ended, for whatever cause, is
\* in no registry
TaskEnded(k) == connState[k] \in {"closed", "cancelled"}
C11_EndedTaskIsUnregistered ==
    \A k \in Conns :
        TaskEnded(k) =>
            /\ \A u \in Users : k \notin WsSocksOf(u)
            /\ k \notin Registered(sse_user_connections)

\* C12: a typing event of the user of socket k on channel c goes to every
\* connection of every other subscriber of c, and to no connection of the
\* sender (nor to anyone else)
C12_TypingReachesOthersOnly ==
    [][\A k \in Conns, c \in Channels :
        WSTyping(k, c) =>
            \A j \in Conns :
                outbox'[j] = IF j \in SubscriberConns(c) /\ connUser[j] # connUser[k]
                             THEN Append(outbox[j], Frame("typing", c, connUser[k], nextEvent + 1))
                             ELSE outbox[j]]_vars

\* C13: a read receipt of the user of socket k is delivered to no connection
\* of that user
C13_ReceiptNotEchoed ==
    [][\A k \in Conns, c \in Channels :
        WSReadReceipt(k, c) =>
            \A j \in Conns : connUser[j] = connUser[k] => outbox'[j] = outbox[j]]_vars

\* C14: in either manager a second join of the same user gives the table of
\* the first, and a leave of a user who is not in the channel's set (or of a
\* channel without entry) gives the table back unchanged
C14_JoinLeaveIdempotent ==
    \A key \in ChannelKeys, u \in Users :
        /\ ws_lock = {} =>
              LET once == ws_join_channel(WsWorld, key, u)
              IN  /\ ws_join_channel(once, key, u) = once
                  /\ u \notin WsMembers(key) => ws_leave_channel(WsWorld, key, u) = WsWorld
        /\ LET once == sse_join_channel(SseWorld, key, u)
           IN  /\ sse_join_channel(once, key, u) = once
               /\ u \notin SseMembers(key) => sse_leave_channel(SseWorld, key, u) = SseWorld

\* the case of C14: a channel with an entry that holds one user (who can
\* join again) and not another (who can leave without having joined)
C14_EntryWithAndWithout ==
    \E c \in Channels, u \in Users, v \in Users :
        /\ ws_lock = {}
        /\ u \in WsMembers(StrKey(c)) /\ v \notin WsMembers(StrKey(c))
        /\ \E k \in Conns : WsReady(k) /\ connUser[k] = v

\* C15: a disconnect for a socket that is no longer in the registry completes
\* and changes neither registry, presence nor channel sets, and sends nothing
C15_DisconnectOfRemovedIsNoOp ==
    [][\A k \in Conns :
        (WSDisconnect(k) /\ k \notin WsSocksOf(connUser[k])) =>
            /\ connState'[k] = "closed"
            /\ UNCHANGED <<ws_active_connections, ws_channel_members, ws_user_presence>>
            /\ \A j \in Conns \ {k} :
                  presenceSeen'[j] = presenceSeen[j] /\ outbox'[j] = outbox[j]]_vars

\* C16: no manager call awaits a send to a client while its task holds the
\* manager lock
C16_NoSendUnderLock ==
    [][/\ \A k \in Conns :
            WSDisconnect(k) => ~ws_disconnect(WsWorld, k, connUser[k]).lockedSend
       /\ \A k \in Conns, u \in Users :
            WSConnect(k, u) => ~ws_connect(WsWorld, k, u).lockedSend]_vars

\* C17: a user is online exactly when the registry holds at least one
\* connection of the user: no registry key has an empty connection set
C17_OnlineIffHasConnection ==
    \A u \in Users :
        /\ ws_is_user_online(u) <=> WsSocksOf(u) # {}
        /\ sse_is_user_online(u) <=> SseConnsOf(u) # {}

\* C18: the connect that creates a user's first connection and the
\* disconnect that removes the last one send the presence event of the
\* transition to the connections of the users who are online, on both
\* transports
WsPresenceSent(u, online, socks) ==
    \A j \in socks :
        ~peerGone[j] =>
            presenceSeen'[j] = [frame |-> PresenceFrame(u, online), bit |-> ~presenceSeen[j].bit]
SsePresenceSent(u, online, conns) ==
    \A j \in conns :
        ~sse_queue_full(queue, j) => queue'[j] = Append(queue[j], PresenceFrame(u, online))
C18_PresenceFollowsRegistry ==
    [][/\ \A k \in Conns, u \in Users :
            (WSConnect(k, u) /\ ~ws_is_user_online(u) /\ connState'[k] = "registered") =>
                WsPresenceSent(u, TRUE, UNION {WsSocksOf(v) : v \in Users})
       /\ \A k \in Conns :
            (WSDisconnect(k) /\ WsSocksOf(connUser[k]) = {k} /\ connState'[k] = "closed") =>
                WsPresenceSent(connUser[k], FALSE, UNION {WsSocksOf(v) : v \in Users} \ {k})
       /\ \A k \in Conns, u \in Users :
            (SSEConnect(k, u) /\ ~sse_is_user_online(u)) =>
                SsePresenceSent(u, TRUE, Registered(sse_user_connections))
       /\ \A k \in Conns :
            (SSEDisconnect(k) /\ SseConnsOf(connUser[k]) = {k}) =>
                SsePresenceSent(connUser[k], FALSE, Registered(sse_user_connections) \ {k})]_vars

\* C19: the events a connection is handed arrive in the order their
\* broadcasts were issued (send_to_user calls number their notices in call
\* order, the bridge handles the notifications in the order of their ids),
\* also when an earlier broadcast is suspended on the full queue of another
\* recipient: a broadcast that resumes from the queue of one user and then
\* reaches connection k of another user finds no later event of its kind
\* already handed to k by a broadcast to a channel the first user is not
\* subscribed to
Received(k) == IF connKind[k] = "sse" THEN outbox[k] \o queue[k] ELSE outbox[k]
Numbered == {"new_message", "notice"}
C19_DeliveredInIssueOrder ==
    [][\A job \in tasks, k \in Conns :
          (/\ SSEResume(job)
           /\ connUser[k] # connUser[Head(job.cur)]
           /\ job.frame.type \in Numbered
           /\ Received(k)' = Append(Received(k), job.frame))
              => \A i \in DOMAIN Received(k) :
                    (/\ Received(k)[i].type = job.frame.type
                     /\ connUser[Head(job.cur)] \notin SseMembers(StrKey(Received(k)[i].chan)))
                        => Received(k)[i].id < job.frame.id]_vars

\* C20: handling a notification awaits every callback registered for its
\* name and none registered for another name, also the callbacks that come
\* after one that raises; what a callback raises leaves the listener as it
\* was (only the notification is consumed)
C20_EveryHandlerInvoked ==
    [][/\ PgHandle =>
            LET rest == pg.others[Head(pg.inbox).table]
            IN  /\ tasks' = tasks => pg'.called = rest
                /\ pg' = [pg EXCEPT !.inbox = Tail(@), !.called = pg'.called]
       /\ \A job \in tasks :
            (SSEResume(job) /\ tasks' = tasks \ {job} /\ job.then # <<>>) =>
                pg' = [pg EXCEPT !.called = job.then]]_vars
C20_CalledAfterRaise ==
    \E i \in DOMAIN pg.called : i < Len(pg.called) /\ pg.called[i] = "raises"

\* C21: a command of any type on a channel its sender is not a persistent
\* member of is answered with an error
C21_NonMemberCommandRejected ==
    \A k \in Conns, c \in Channels, type \in EVENT_HANDLERS :
        (WsReady(k) /\ ~verify_channel_access(connUser[k], c))
            => handler_response(type, connUser[k], c) = "error"

\* C22: a frame that is not valid JSON, or whose type is unknown, is answered
\* with one error frame on the connection it came in on and nothing else
\* changes: the connection stays registered and its loop goes on, no other
\* connection is sent anything, the registry and the subscriptions stay
C22_BadFrameAnsweredWithError ==
    [][\A k \in Conns, f \in InboundFrames :
          (WSReceiveOther(k, f) /\ (~f.json \/ ~f.object \/ f.type \notin EVENT_HANDLERS)) =>
              /\ outbox' = [outbox EXCEPT ![k] = Append(@, ErrorFrame(connUser[k], nextEvent + 1))]
              /\ WsReady(k)'
              /\ k \in WsSocksOf(connUser[k])'
              /\ UNCHANGED <<ws_active_connections, ws_channel_members, ws_user_presence,
                             presenceSeen>>]_vars
C22_ErrorFrameSent ==
    \E k \in Conns :
        /\ WsReady(k)
        /\ \E i \in DOMAIN outbox[k] : outbox[k][i].type = "error"
        /\ \E j \in Conns \ {k} : WsReady(j)

\* C23: driven by the same calls, the two managers keep the same online
\* users and the same subscribers of every channel, and every broadcast is
\* handed to connections of the same users by both
OnlineWs == {u \in Users : ws_is_user_online(u)}
OnlineSse == {u \in Users : sse_is_user_online(u)}
C23_ManagersAgree ==
    [][/\ OnlineWs' = OnlineSse'
       /\ \A key \in ChannelKeys : WsMembers(key)' = SseMembers(key)'
       /\ \A kind \in BroadcastKinds, c \in Channels, u \in Users :
             PairBroadcast(kind, c, u) =>
                 {connUser[j] : j \in {i \in Conns : outbox'[i] # outbox[i]}}
                     = {connUser[j] : j \in {i \in Conns : queue'[i] # queue[i]}}]_vars

\* C24: when the handshake of a connection has finished, its user is a
\* subscriber of every channel the user is a persistent member of, under
\* the key (the string id) the broadcasts of the commands and of the bridge
\* look the channel up by
C24_AutoJoinedUnderBroadcastKey ==
    [][\A k \in Conns :
          /\ (WSHandshake(k) /\ connState'[k] = "open") =>
                \A c \in ChannelsOf(connUser[k]) : connUser[k] \in WsMembers(StrKey(c))'
          /\ SSEHandshake(k) =>
                \A c \in ChannelsOf(connUser[k]) : connUser[k] \in SseMembers(StrKey(c))']_vars

\* C25: a broadcast that was suspended on a send and goes on after joins,
\* leaves, connects or disconnects have run in between does not raise (its
\* sender gets no error frame) and reaches every connection that is still
\* registered and alive of every subscriber it had yet to serve
C25_InterleavingKeepsBroadcast ==
    [][\A job \in tasks :
          WSSendResume(job) =>
              /\ outbox'[job.sender] \in {outbox[job.sender],
                                          Append(outbox[job.sender], job.frame)}
              /\ \A u \in Range(job.users) \ {ws_exclude(job.frame.type, job.frame.user)} :
                    \A s \in WsSocksOf(u) :
                        ~peerGone[s] => outbox'[s] = Append(outbox[s], job.frame)]_vars

\* C26: when the send to a connection of one subscriber fails during a
\* broadcast (a broken socket, a full queue), every working connection of
\* every other subscriber gets the event in that broadcast and the table of
\* channel members stays as it was
C26_FailedSendSparesOthers ==
    [][/\ \A k \in Conns, c \in Channels :
             WSNewMessage(k, c) =>
                 \A u0 \in ws_recipients(WsWorld, StrKey(c), NoUser) :
                     (\E s0 \in WsSocksOf(u0) : peerGone[s0]) =>
                         /\ \A u \in ws_recipients(WsWorld, StrKey(c), NoUser) \ {u0} :
                               \A s \in WsSocksOf(u) :
                                   ~peerGone[s] =>
                                       outbox'[s] = Append(outbox[s],
                                           Frame("message", c, connUser[k], nextEvent'))
                         /\ ws_channel_members' = ws_channel_members
       /\ (PgHandle /\ Head(pg.inbox).table \in pg.callbacks
                    /\ sse_event_type(Head(pg.inbox).table, Head(pg.inbox).operation) # "") =>
             LET n == Head(pg.inbox)
                 members == sse_recipients(sse_channel_members, StrKey(n.channel_id), NoUser)
                 frame == Frame(sse_event_type(n.table, n.operation),
                                n.channel_id, n.user_id, n.id)
             IN  \A u0 \in members :
                     (\E s0 \in SseConnsOf(u0) : sse_queue_full(queue, s0)) =>
                         /\ \A u \in members \ {u0} :
                               \A s \in SseConnsOf(u) :
                                   ~sse_queue_full(queue, s) =>
                                       queue'[s] = Append(queue[s], frame)
                         /\ sse_channel_members' = sse_channel_members]_vars

\* C27: in neither manager does channel_members hold an entry whose set of
\* subscribers is empty; a leave or a last disconnect that empties a set
\* removes the key
C27_NoEmptyChannelEntry ==
    /\ \A key \in DOMAIN ws_channel_members : ws_channel_members[key] # {}
    /\ \A key \in DOMAIN sse_channel_members : sse_channel_members[key] # {}

\* u2, the only persistent member of c2, is connected with the handshake
\* (and its auto-join of c2) done, and c2 has no entry: u2 has left it
C27_EmptiedEntryRemoved ==
    \E k \in Conns :
        /\ connKind[k] = "sse" /\ connState[k] = "open" /\ connUser[k] = "u2"
        /\ ~HasKey(sse_channel_members, StrKey("c2"))
        /\ HasKey(sse_channel_members, StrKey("c1"))

\* C28: the reconnect after a drop ends with the listener listening to
\* every name it listened to before the drop, and no notification that came
\* in through the new connection is handled before that
C28_RelistenBeforeHandling ==
    [][/\ (pg.pc = "relisten2" /\ pg'.pc = "sleep") => pg'.listeners = Tables
       /\ (PgHandle /\ pg.connection = "open" /\ pg.drops > 0
                    /\ Head(pg.inbox).via = pg.drops) =>
             pg.listeners = Tables]_vars

\* C29: the event the bridge handler queues for a notification has the type
\* new_message, message_updated, message_deleted for an INSERT, UPDATE,
\* DELETE of channel_messages and reaction_added, reaction_removed for an
\* INSERT, DELETE of message_reactions, and goes to subscribers of the
\* payload's channel; for any other pair nothing is queued
C29_BridgeEventTypes ==
    [][PgHandle =>
          LET n == Head(pg.inbox)
              want == CASE n.table = "channel_messages" /\ n.operation = "INSERT" -> "new_message"
                        [] n.table = "channel_messages" /\ n.operation = "UPDATE" -> "message_updated"
                        [] n.table = "channel_messages" /\ n.operation = "DELETE" -> "message_deleted"
                        [] n.table = "message_reactions" /\ n.operation = "INSERT" -> "reaction_added"
                        [] n.table = "message_reactions" /\ n.operation = "DELETE" -> "reaction_removed"
                        [] OTHER -> ""
          IN  \A k \in Conns :
                  queue'[k] # queue[k] =>
                      /\ want # ""
                      /\ queue'[k] = Append(queue[k], Frame(want, n.channel_id, n.user_id, n.id))
                      /\ connUser[k] \in SseMembers(StrKey(n.channel_id))]_vars

\* C30: a message event that a WebSocket connection has been sent is the
\* event of a committed row, and a new_message command whose membership
\* check or commit fails sends the event to nobody
MessageFrames(out) ==
    UNION {{out[k][i] : i \in DOMAIN out[k]} : k \in Conns} \cap
        {Frame("message", c, u, e) : c \in Channels, u \in Users, e \in 1..MaxEvents}
C30_BroadcastAfterCommit ==
    [][/\ \A f \in MessageFrames(outbox') : f.id \in db_messages'
       /\ \A k \in Conns, c \in Channels, committed \in BOOLEAN :
             WSNewMessageFails(k, c, committed) =>
                 /\ MessageFrames(outbox') = MessageFrames(outbox)
                 /\ \A j \in Conns : Len(outbox'[j]) = Len(outbox[j]) + (IF j = k /\ verify_channel_access(connUser[k], c) THEN 1 ELSE 0)]_vars

\* a subscriber has the message event of another user's committed message
C30_CommittedMessageReceived ==
    \E k \in Conns : \E i \in DOMAIN outbox[k] :
        /\ outbox[k][i].type = "message"
        /\ outbox[k][i].user # connUser[k]
        /\ outbox[k][i].id \in db_messages

\* C31: of a message written by the new_message command while the bridge
\* listens, a connection is handed at most one event (the handler's message
\* event or the bridge's new_message event), queued or sent
C31_OneEventPerConnection ==
    \A k \in Conns, e \in 1..MaxEvents :
        LET got == outbox[k] \o queue[k]
        IN  Cardinality({i \in DOMAIN got : /\ got[i].id = e
                                            /\ got[i].type \in {"message", "new_message"}}) <= 1

\* both paths have delivered: a WebSocket connection holds the handler's
\* event and an SSE connection the bridge's event of the same message
C31_BothPathsDelivered ==
    \E k \in Conns, j \in Conns, e \in db_messages :
        /\ connKind[k] = "ws" /\ connKind[j] = "sse"
        /\ \E i \in DOMAIN outbox[k] : outbox[k][i].id = e /\ outbox[k][i].type = "message"
        /\ \E i \in DOMAIN (outbox[j] \o queue[j]) :
              /\ (outbox[j] \o queue[j])[i].id = e
              /\ (outbox[j] \o queue[j])[i].type = "new_message"
        /\ pg.inbox = <<>>

\* C32: a stream emits the keep-alive ping only when it has sent no event
\* for a whole ping interval
C32_PingOnlyAfterIdle ==
    [][\A k \in Conns :
          SSEPing(k) => sse_stream[k].since_event >= PingInterval]_vars

\* C33: a call of ConnectionManager.disconnect returns with the lock
\* released, also when it removes the user's last connection and the send
\* of the offline status to a socket of another user fails
C33_DisconnectReleasesLock ==
    [][\A k \in Conns :
          WSDisconnect(k) => (connState'[k] = "closed" /\ ws_lock' = {})]_vars

\* C34: a send to a user that was suspended on a socket write and goes on
\* after connections of the user were added or removed (or the user was
\* removed) does not raise: it returns to its caller normally
C34_SendSurvivesMutation ==
    [][\A job \in tasks :
          WSPersonalResume(job) => ~ws_personal_raises(job)]_vars

\* C35: a disconnect that removes one of several connections of a user
\* leaves the user online with the other connections, changes no channel
\* subscription, sends no presence event, and the user stays among the
\* recipients of the broadcasts of every channel; a broadcast that was in
\* progress when the connection was removed still reaches the connections
\* that remain
C35_OtherConnectionsUntouched ==
    [][/\ \A k \in Conns :
             LET u == connUser[k]
             IN  /\ (WSDisconnect(k) /\ connState'[k] = "closed"
                        /\ k \in WsSocksOf(u) /\ WsSocksOf(u) # {k}) =>
                       /\ ws_is_user_online(u)'
                       /\ WsSocksOf(u)' = WsSocksOf(u) \ {k}
                       /\ ws_channel_members' = ws_channel_members
                       /\ ws_user_presence' = ws_user_presence
                       /\ \A j \in Conns \ {k} :
                             presenceSeen'[j] = presenceSeen[j] /\ outbox'[j] = outbox[j]
                       /\ \A key \in ChannelKeys :
                             ws_recipients(WsWorld, key, NoUser)' = ws_recipients(WsWorld, key, NoUser)
                 /\ (SSEDisconnect(k) /\ SseConnsOf(u) # {k}) =>
                       /\ sse_is_user_online(u)'
                       /\ SseConnsOf(u)' = SseConnsOf(u) \ {k}
                       /\ sse_channel_members' = sse_channel_members
                       /\ sse_user_presence' = sse_user_presence
                       /\ \A j \in Conns \ {k} : queue'[j] = queue[j] /\ outbox'[j] = outbox[j]
                       /\ \A key \in ChannelKeys :
                             sse_recipients(sse_channel_members, key, NoUser)'
                                 = sse_recipients(sse_channel_members, key, NoUser)
       /\ \A job \in tasks :
             LET OneRemoved(u) ==
                     /\ WsSocksOf(u) # {}
                     /\ WsSocksOf(u) \subseteq job.snap /\ WsSocksOf(u) # job.snap
                 StillServed(u) ==
                     \A x \in 2..Len(job.cur) :
                         (job.cur[x] \in WsSocksOf(u) /\ ~peerGone[job.cur[x]]) =>
                             outbox'[job.cur[x]] = Append(outbox[job.cur[x]], job.frame)
             IN  /\ (WSSendResume(job) /\ OneRemoved(connUser[Head(job.cur)])) =>
                       StillServed(connUser[Head(job.cur)])
                 /\ (WSPersonalResume(job) /\ OneRemoved(job.frame.user)) =>
                       StillServed(job.frame.user)]_vars

\* C36: in both managers the users with an entry in user_presence are the
\* users with an entry in the registry
C36_PresenceKeysMatchRegistry ==
    /\ ws_user_presence = OnlineWs
    /\ sse_user_presence = OnlineSse

\* one user has been removed with the last connection while another user
\* is registered
C36_OneGoneOneHere ==
    \E k \in Conns :
        /\ connState[k] = "closed" /\ connUser[k] \notin (ws_user_presence \cup sse_user_presence)
        /\ (ws_user_presence \cup sse_user_presence) # {}

====
